---- MODULE Spec2Model ----
(***************************************************************************)
(* A model of redact-sensitive.js: the default configuration, loadConfig,  *)
(* isSensitiveKey, isSensitiveValue, redactObject, processFile and main.   *)
(*                                                                         *)
(* JavaScript values are tagged records [t, v]:                            *)
(*   t = "null" | "bool" | "num" | "str" | "arr" | "obj" | "regex"         *)
(* A string is the sequence of its characters, so that toLowerCase and     *)
(* includes are computed character by character.  An object is the        *)
(* sequence of its own enumerable (key, value) pairs in insertion order.   *)
(* A configuration object is a function from its property names to their  *)
(* values.  A regular expression is an object too: test writes lastIndex   *)
(* on an expression with the flag g, so the functions that test patterns   *)
(* yield the value they return together with the rule set as they leave it.*)
(***************************************************************************)
EXTENDS Integers, Sequences, FiniteSets, TLC

\* ------------------------------------------------------------------ bounds
\* Longest array and widest object of the generated documents.
MaxLen == 2
\* How many times a generated document is wrapped in a further array or object.
MaxWrap == 1

\* ------------------------------------------------------ JavaScript values
JNull == [t |-> "null", v |-> 0]
JBool(b) == [t |-> "bool", v |-> b]
JNum(n) == [t |-> "num", v |-> n]
JStr(s) == [t |-> "str", v |-> s]
JArr(items) == [t |-> "arr", v |-> items]
JObj(entries) == [t |-> "obj", v |-> entries]

\* The abrupt completion of a call that throws a TypeError.
TypeError == [t |-> "TypeError", v |-> 0]

\* typeof x === "object" && x !== null, for the values a JSON document holds.
IsObjectLike(x) == x.t \in {"arr", "obj"}

UPPER == <<"A","B","C","D","E","F","G","H","I","J","K","L","M","N","O","P","Q","R","S","T","U","V","W","X","Y","Z">>
LOWER == <<"a","b","c","d","e","f","g","h","i","j","k","l","m","n","o","p","q","r","s","t","u","v","w","x","y","z">>

toLowerCaseChar(c) ==
    IF \E i \in DOMAIN UPPER : UPPER[i] = c
    THEN LOWER[CHOOSE i \in DOMAIN UPPER : UPPER[i] = c]
    ELSE c

\* String.prototype.toLowerCase
toLowerCase(s) == [i \in 1..Len(s) |-> toLowerCaseChar(s[i])]

\* String.prototype.includes: sub occurs in s as a contiguous substring.
includes(s, sub) ==
    \E i \in 0..(Len(s) - Len(sub)) : SubSeq(s, i + 1, i + Len(sub)) = sub

\* Array.prototype.includes
arrayIncludes(arr, x) == \E i \in 1..Len(arr) : arr[i] = x

\* ------------------------------------------------------ regular expressions
\* A regular expression is a sequence of atoms, each a character class
\* repeated min..max times, with the anchors ^ and $ and the flags i and g.
\* It is an object: lastIndex is its one writable property.
Digits == {"0","1","2","3","4","5","6","7","8","9"}
HexDigits == {"a","b","c","d","e","f"} \cup Digits

Atom(cls, min, max) == [cls |-> cls, min |-> min, max |-> max]
Lit(s) == [i \in 1..Len(s) |-> Atom({s[i]}, 1, 1)]

\* The literal /.../ or /.../i as it is created: not global, lastIndex 0.
RegExp(anchorStart, atoms, anchorEnd, ignoreCase) ==
    [t |-> "regex",
     v |-> [anchorStart |-> anchorStart, atoms |-> atoms,
            anchorEnd |-> anchorEnd, ignoreCase |-> ignoreCase,
            global |-> FALSE, lastIndex |-> 0]]

\* The same expression with the flag g.
Global(pattern) == [pattern EXCEPT !.v.global = TRUE]

CharIn(c, cls, ignoreCase) ==
    IF ignoreCase
    THEN \E d \in cls : toLowerCaseChar(d) = toLowerCaseChar(c)
    ELSE c \in cls

\* The positions at which a match of atoms[k..] that starts at pos can end.
RECURSIVE MatchEnds(_, _, _, _, _)
MatchEnds(atoms, k, s, pos, ignoreCase) ==
    IF k > Len(atoms) THEN {pos}
    ELSE UNION { MatchEnds(atoms, k + 1, s, pos + n, ignoreCase) :
                 n \in { m \in atoms[k].min..atoms[k].max :
                         /\ pos + m - 1 <= Len(s)
                         /\ \A j \in pos..(pos + m - 1) :
                                CharIn(s[j], atoms[k].cls, ignoreCase) } }

\* atoms[k..] can match from pos on, up to the end of s when re ends with $.
CanFinish(re, k, s, pos) ==
    \E end \in MatchEnds(re.atoms, k, s, pos, re.ignoreCase) :
        re.anchorEnd => end = Len(s) + 1

\* The positions at which the matcher finds a match of re to start: test
\* begins at lastIndex when re is global and at the start of s otherwise
\* (position p is index p - 1), and ^ matches only at the start of s.
MatchStarts(re, s) ==
    { start \in ((IF re.global THEN re.lastIndex ELSE 0) + 1)..(Len(s) + 1) :
        /\ re.anchorStart => start = 1
        /\ CanFinish(re, 1, s, start) }

\* Where the match of atoms[k..] from pos ends: every quantifier is greedy,
\* so each atom takes the most characters that let the rest match.
RECURSIVE GreedyEnd(_, _, _, _)
GreedyEnd(re, k, s, pos) ==
    IF k > Len(re.atoms) THEN pos
    ELSE LET ns == { m \in re.atoms[k].min..re.atoms[k].max :
                       /\ pos + m - 1 <= Len(s)
                       /\ \A j \in pos..(pos + m - 1) :
                              CharIn(s[j], re.atoms[k].cls, re.ignoreCase)
                       /\ CanFinish(re, k + 1, s, pos + m) }
             n == CHOOSE m \in ns : \A o \in ns : o <= m
         IN GreedyEnd(re, k + 1, s, pos + n)

\* test as a match of the whole of s, wherever the expression has anchors.
RegExpTest_fullMatch(re, s) ==
    (Len(s) + 1) \in MatchEnds(re.atoms, 1, s, 1, re.ignoreCase)

\* RegExp.prototype.test, the value returned: a search for a match anywhere
\* in s from where test begins, which the pattern's own anchors may pin to
\* the start or the end of s.
RegExpTest(re, s) == MatchStarts(re, s) # {}

\* RegExp.prototype.test, the value it leaves in re.lastIndex: a global
\* expression is left at the end of the leftmost match, or at 0 when there
\* is none; any other expression is not written.
lastIndexAfterTest(re, s) ==
    IF ~re.global THEN re.lastIndex
    ELSE IF ~RegExpTest(re, s) THEN 0
    ELSE LET starts == MatchStarts(re, s)
             start == CHOOSE a \in starts : \A b \in starts : a <= b
         IN GreedyEnd(re, 1, s, start) - 1

\* ------------------------------------------------------ DEFAULT_CONFIG
DEFAULT_sensitiveKeys == <<
    <<"p","a","s","s","w","o","r","d">>,
    <<"p","i","n">>,
    <<"e","m","a","i","l">>,
    <<"u","u","i","d">>,
    <<"s","e","c","r","e","t">>,
    <<"t","o","k","e","n">>,
    <<"k","e","y">>,
    <<"c","r","e","d","e","n","t","i","a","l">>,
    <<"a","u","t","h">>,
    <<"l","o","g","i","n">>,
    <<"p","a","s","s","c","o","d","e">>,
    <<"s","e","c","u","r","i","t","y">> >>

DEFAULT_sensitiveProperties == <<
    <<"p","a","s","s","w","o","r","d">>,
    <<"p","i","n">>,
    <<"e","m","a","i","l","A","d","d","r","e","s","s">>,
    <<"u","u","i","d">>,
    <<"s","e","c","r","e","t","K","e","y">>,
    <<"a","c","c","e","s","s","T","o","k","e","n">>,
    <<"r","e","f","r","e","s","h","T","o","k","e","n">>,
    <<"a","p","i","K","e","y">>,
    <<"p","r","i","v","a","t","e","K","e","y">>,
    <<"c","r","e","d","i","t","C","a","r","d","N","u","m","b","e","r">>,
    <<"c","v","v">>,
    <<"s","s","n">>,
    <<"s","o","c","i","a","l","S","e","c","u","r","i","t","y","N","u","m","b","e","r">> >>

Dash == <<Atom({"-"}, 1, 1)>>

DEFAULT_sensitivePatterns == <<
    RegExp(TRUE, <<Atom(Digits, 4, 6)>>, TRUE, FALSE),
    RegExp(TRUE,
           <<Atom(HexDigits, 8, 8)>> \o Dash \o <<Atom(HexDigits, 4, 4)>> \o Dash
             \o <<Atom(HexDigits, 4, 4)>> \o Dash \o <<Atom(HexDigits, 4, 4)>> \o Dash
             \o <<Atom(HexDigits, 12, 12)>>,
           TRUE, TRUE),
    RegExp(TRUE, Lit(<<"t","e","s","t","p","a","s","s","1","2","3","!">>), TRUE, TRUE),
    RegExp(TRUE, Lit(<<"f","a","k","e","p","a","s","s","w","o","r","d","4","5","6">>), TRUE, TRUE),
    RegExp(TRUE, Lit(<<"t","e","s","t","@","e","x","a","m","p","l","e",".","c","o","m">>), TRUE, TRUE) >>

REDACTED == <<"[","R","E","D","A","C","T","E","D","]">>

\* The object literal DEFAULT_CONFIG as the module is loaded.
DEFAULT_CONFIG_literal ==
    [sensitiveKeys |-> DEFAULT_sensitiveKeys,
     sensitiveProperties |-> DEFAULT_sensitiveProperties,
     sensitivePatterns |-> DEFAULT_sensitivePatterns,
     redactionText |-> JStr(REDACTED),
     preserveKeys |-> FALSE]

\* ------------------------------------------------------ classification
isSensitiveKey(key, config) ==
    LET keyLower == toLowerCase(key) IN
    \/ arrayIncludes(config.sensitiveProperties, keyLower)
    \/ \E i \in 1..Len(config.sensitiveKeys) :
           includes(keyLower, toLowerCase(config.sensitiveKeys[i]))

\* A call has an outcome: ret is the value returned (TypeError when the call
\* throws) and config is the rule set object as the call leaves it.
Outcome(ret, config) == [ret |-> ret, config |-> config]

\* In the definitions below, CHOOSE out \in { next(o) : o \in {step} } : TRUE
\* is the one value that next makes of the outcome of step: the outcome o is
\* computed once and handed on as a value.

\* pattern.test(value) for the elements Array.prototype.some visits, from
\* element i on: some stops at the first element whose test is true, each
\* test writes the lastIndex of its expression, and an element that is not a
\* RegExp has no test method, so calling it throws a TypeError.  The outcome
\* holds the array of patterns in place of the rule set.
RECURSIVE somePatternTest(_, _, _)
somePatternTest(patterns, i, s) ==
    IF i > Len(patterns) THEN Outcome(JBool(FALSE), patterns)
    ELSE IF patterns[i].t # "regex" THEN Outcome(TypeError, patterns)
    ELSE CHOOSE out \in
           { IF tested.found THEN Outcome(JBool(TRUE), tested.patterns)
             ELSE somePatternTest(tested.patterns, i + 1, s) :
             tested \in { [found |-> RegExpTest(patterns[i].v, s),
                           patterns |-> [patterns EXCEPT ![i].v.lastIndex =
                                            lastIndexAfterTest(patterns[i].v, s)]] } } : TRUE

\* ret is JBool(b) when the call returns b.
isSensitiveValue(value, config) ==
    IF value.t # "str" THEN Outcome(JBool(FALSE), config)
    ELSE CHOOSE out \in
           { Outcome(some.ret, [config EXCEPT !.sensitivePatterns = some.config]) :
             some \in { somePatternTest(config.sensitivePatterns, 1, value.v) } } : TRUE

\* ------------------------------------------------------ redactObject
PROTO == <<"_","_","p","r","o","t","o","_","_">>

\* redacted[key] = value on an object created by the literal {}: key
\* "__proto__" names the accessor inherited from Object.prototype, so the
\* assignment sets (or, for a primitive value, ignores) the prototype and
\* creates no own property; any other key is appended, or overwritten in
\* place when already present.
SetProperty(redacted, key, value) ==
    IF key = PROTO THEN redacted
    ELSE IF \E i \in 1..Len(redacted) : redacted[i][1] = key
    THEN [i \in 1..Len(redacted) |->
            IF redacted[i][1] = key THEN <<key, value>> ELSE redacted[i]]
    ELSE Append(redacted, <<key, value>>)

DigitChars == <<"0","1","2","3","4","5","6","7","8","9">>

\* Number.prototype.toString for a natural number.
RECURSIVE NumberToString(_)
NumberToString(n) ==
    IF n < 10 THEN <<DigitChars[n + 1]>>
    ELSE NumberToString(n \div 10) \o <<DigitChars[(n % 10) + 1]>>

\* The value stored for a primitive property value: lines 159-163.
redactValue(value, config) ==
    CHOOSE out \in
      { IF sens.ret = TypeError THEN sens
        ELSE IF sens.ret.v THEN Outcome(config.redactionText, sens.config)
        ELSE Outcome(value, sens.config) :
        sens \in { isSensitiveValue(value, config) } } : TRUE

RECURSIVE redactObject(_, _)
RECURSIVE redactItems(_, _, _, _)
RECURSIVE redactEntries(_, _, _, _)

\* obj.map(...) from element i on, with the elements mapped so far.
redactItems(items, i, mapped, config) ==
    IF i > Len(items) THEN Outcome(JArr(mapped), config)
    ELSE CHOOSE out \in
           { IF item.ret = TypeError THEN item
             ELSE redactItems(items, i + 1, Append(mapped, item.ret), item.config) :
             item \in { redactObject(items[i], config) } } : TRUE

\* The for-of loop over Object.entries(obj), from entry i on, with the
\* object built so far.
redactEntries(entries, i, redacted, config) ==
    IF i > Len(entries) THEN Outcome(JObj(redacted), config)
    ELSE
      LET key == entries[i][1]
          value == entries[i][2]
      IN
      IF isSensitiveKey(key, config)
      THEN redactEntries(entries, i + 1,
               IF config.preserveKeys
               THEN SetProperty(redacted, key, config.redactionText)
               ELSE redacted,
               config)
      ELSE CHOOSE out \in
             { IF stored.ret = TypeError THEN stored
               ELSE redactEntries(entries, i + 1,
                                  SetProperty(redacted, key, stored.ret), stored.config) :
               stored \in { IF IsObjectLike(value)
                            THEN redactObject(value, config)
                            ELSE redactValue(value, config) } } : TRUE

\* The outcome of redactObject(obj, config).
\* (parentPath only builds currentPath, which nothing reads.)
redactObject(obj, config) ==
    IF ~IsObjectLike(obj) THEN Outcome(obj, config)
    ELSE IF obj.t = "arr" THEN redactItems(obj.v, 1, <<>>, config)
    ELSE redactEntries(obj.v, 1, <<>>, config)

\* ------------------------------------------------------ the file system
\* A file is absent, or holds text that JSON.parse rejects, or holds the
\* text of a JSON document, named here by the value JSON.parse returns.
Missing == [exists |-> FALSE, valid |-> FALSE, value |-> JNull]
Garbage == [exists |-> TRUE, valid |-> FALSE, value |-> JNull]
JsonFile(value) == [exists |-> TRUE, valid |-> TRUE, value |-> value]

S1234 == <<"1","2","3","4">>
Hello == <<"h","e","l","l","o">>
Code == <<"c","o","d","e">>
PIN == <<"P","I","N">>
Foo == <<"f","o","o">>
Proto == <<"p","r","o","t","o">>

\* The pattern string of the help text's sample configuration: \d{4,6}$
PatternString == <<"\\","d","{","4",",","6","}","$">>

\* Configuration files.  A parsed configuration is the function from its own
\* enumerable property names to their values, which is all the spread
\* {...userConfig} reads: none for null or a number, the indices for an array.
ConfigFiles ==
    [ missing |-> Missing,
      garbage |-> Garbage,
      empty |-> JsonFile(<<>>),
      number |-> JsonFile(<<>>),
      array |-> JsonFile("0" :> JStr(Foo)),
      unknown |-> JsonFile("verbose" :> JBool(TRUE)),
      preserve |-> JsonFile("preserveKeys" :> TRUE),
      text |-> JsonFile("redactionText" :> JStr(S1234)),
      keys |-> JsonFile("sensitiveKeys" :> <<Foo>>),
      properties |-> JsonFile(("sensitiveProperties" :> <<Code>>) @@ ("sensitiveKeys" :> <<>>)),
      patterns |-> JsonFile("sensitivePatterns" :> <<JStr(PatternString)>>),
      badPattern |-> JsonFile("sensitivePatterns" :> <<JStr(<<"(">>)>>),
      noPatterns |-> JsonFile("sensitivePatterns" :> <<>>),
      all |-> JsonFile([sensitiveKeys |-> <<Proto>>,
                        sensitiveProperties |-> <<PIN>>,
                        sensitivePatterns |-> <<>>,
                        redactionText |-> JStr(Hello),
                        preserveKeys |-> TRUE]) ]

ConfigPaths == DOMAIN ConfigFiles

\* No --config option (configFile stays null).
NoPath == "null"

\* ------------------------------------------------------ loadConfig
NoObject == <<>>

\* The spread written the other way round, { ...overrides, ...base }.
Spread_baseLast(base, overrides) ==
    [f \in DOMAIN base \cup DOMAIN overrides |->
        IF f \in DOMAIN base THEN base[f] ELSE overrides[f]]

\* { ...base, ...overrides }: every own property of overrides, then the
\* properties of base that overrides does not have.
Spread(base, overrides) ==
    [f \in DOMAIN base \cup DOMAIN overrides |->
        IF f \in DOMAIN overrides THEN overrides[f] ELSE base[f]]

\* loadConfig without its try/catch: a file that cannot be read or parsed
\* makes the call throw.
loadConfig_uncaught(configPath, defaults) ==
    IF configPath = NoPath
    THEN [ref |-> "DEFAULT_CONFIG", obj |-> NoObject, threw |-> FALSE]
    ELSE LET file == ConfigFiles[configPath] IN
         IF file.exists /\ file.valid
         THEN [ref |-> "object", obj |-> Spread(defaults, file.value), threw |-> FALSE]
         ELSE [ref |-> "thrown", obj |-> NoObject, threw |-> TRUE]

\* What loadConfig(configPath) returns when DEFAULT_CONFIG holds defaults:
\* ref says whether the result is the object DEFAULT_CONFIG itself or a
\* newly created object (obj); threw says that the call threw instead.
loadConfig(configPath, defaults) ==
    IF configPath = NoPath
    THEN [ref |-> "DEFAULT_CONFIG", obj |-> NoObject, threw |-> FALSE]
    ELSE LET file == ConfigFiles[configPath] IN
         IF file.exists /\ file.valid
         THEN [ref |-> "object", obj |-> Spread(defaults, file.value), threw |-> FALSE]
         ELSE [ref |-> "DEFAULT_CONFIG", obj |-> NoObject, threw |-> FALSE]

\* ------------------------------------------------------ processFile
\* { "c0": "1234", ..., "c9": "1234" }
ManyCodes == JObj([i \in 1..10 |-> << <<"c", DigitChars[i]>>, JStr(S1234) >>])

InputFiles ==
    [ absent |-> Missing,
      notJson |-> Garbage,
      plain |-> JsonFile(JObj(<< <<Code, JStr(Hello)>> >>)),
      number |-> JsonFile(JObj(<< <<Code, JNum(1234)>> >>)),
      digits |-> JsonFile(JObj(<< <<Code, JStr(S1234)>>, <<PIN, JStr(Hello)>> >>)),
      list |-> JsonFile(JArr(<<JStr(S1234), JObj(<< <<PIN, JNull>> >>)>>)),
      many |-> JsonFile(JObj(<< <<<<"a">>, ManyCodes>>, <<<<"b">>, JStr(S1234)>> >>)),
      flat |-> JsonFile(JObj(Append(ManyCodes.v, <<<<"b">>, JStr(S1234)>>))) ]

InputPaths == DOMAIN InputFiles

NoOutput == [t |-> "undefined", v |-> 0]

\* processFile(inputPath, outputPath, config): ok is the value returned,
\* written the document whose JSON text writeFileSync put in the output file
\* (NoOutput when the call wrote none).
processFile(inputPath, config) ==
    LET file == InputFiles[inputPath] IN
    IF ~(file.exists /\ file.valid)
    THEN [ok |-> FALSE, written |-> NoOutput]
    ELSE LET redactedData == redactObject(file.value, config).ret IN
         IF redactedData = TypeError
         THEN [ok |-> FALSE, written |-> NoOutput]
         ELSE [ok |-> TRUE, written |-> redactedData]

\* ------------------------------------------------------ the dry run
\* The number of paths after which showRedacted stops.
PreviewLimit == 10

\* Object.entries(obj) for a non-null value: the index and element pairs of
\* an array, the index and character pairs of a string, none for a number
\* or a boolean.
ObjectEntries(obj) ==
    IF obj.t = "obj" THEN obj.v
    ELSE IF obj.t = "arr"
    THEN [i \in 1..Len(obj.v) |-> <<NumberToString(i - 1), obj.v[i]>>]
    ELSE IF obj.t = "str"
    THEN [i \in 1..Len(obj.v) |-> <<NumberToString(i - 1), JStr(<<obj.v[i]>>)>>]
    ELSE <<>>

RECURSIVE showRedacted(_, _, _)
RECURSIVE showRedactedLoop(_, _, _, _)

\* The loop of showRedacted from entry i on; st holds count and the paths
\* printed so far.
showRedactedLoop(entries, i, path, st) ==
    IF i > Len(entries) THEN st
    ELSE
      LET key == entries[i][1]
          value == entries[i][2]
          currentPath == IF path # <<>> THEN path \o <<".">> \o key ELSE key
      IN
      IF IsObjectLike(value)
      THEN showRedactedLoop(entries, i + 1, path, showRedacted(value, currentPath, st))
      ELSE IF value = JStr(REDACTED)
      THEN LET st2 == [count |-> st.count + 1, printed |-> Append(st.printed, currentPath)] IN
           IF st2.count >= PreviewLimit THEN st2
           ELSE showRedactedLoop(entries, i + 1, path, st2)
      ELSE showRedactedLoop(entries, i + 1, path, st)

showRedacted(obj, path, st) ==
    IF st.count >= PreviewLimit THEN st
    ELSE showRedactedLoop(ObjectEntries(obj), 1, path, st)

\* The try block of the dry run: the paths it prints.  Reading or parsing
\* the input, redactObject, or Object.entries(null) may throw; the catch
\* then reports the error after whatever was printed.
dryRunPreview(inputPath, config) ==
    LET file == InputFiles[inputPath] IN
    IF ~(file.exists /\ file.valid) THEN [count |-> 0, printed |-> <<>>]
    ELSE LET sampleRedacted == redactObject(file.value, config).ret IN
         IF sampleRedacted = TypeError \/ sampleRedacted = JNull
         THEN [count |-> 0, printed |-> <<>>]
         ELSE showRedacted(sampleRedacted, <<>>, [count |-> 0, printed |-> <<>>])

\* ------------------------------------------------------ inputs of the API
Prims == {JNum(1234), JStr(S1234), JStr(Hello)}
DocKeys == {Code, PIN, PROTO}

SeqsUpTo(S, n) == UNION { [1..m -> S] : m \in 0..n }

\* Arrays and objects of primitives, of at most n elements or properties.
Flat(n) ==
    { JArr(a) : a \in SeqsUpTo(Prims, n) }
    \cup { JObj(o) : o \in { e \in SeqsUpTo(DocKeys \X Prims, n) :
                              \A i, j \in 1..Len(e) : i # j => e[i][1] # e[j][1] } }

\* Each document of S as the only element of an array and as the only
\* property of an object.
Wrap(S) ==
    { JArr(<<d>>) : d \in S } \cup { JObj(<< <<k, d>> >>) : k \in DocKeys, d \in S }

\* The documents of S wrapped up to n times.
RECURSIVE Wrapped(_, _)
Wrapped(S, n) == IF n = 0 THEN S ELSE S \cup Wrap(Wrapped(S, n - 1))

\* The documents handed to redactObject: primitives (and null), the flat
\* arrays and objects, each of these nested once, and the narrow ones nested
\* deeper.
Docs ==
    {JNull} \cup Prims \cup Wrapped(Flat(MaxLen), 1) \cup Wrapped(Flat(1), 1 + MaxWrap)

\* The property names handed to isSensitiveKey.
KeyInputs ==
    { DEFAULT_sensitiveProperties[i] : i \in DOMAIN DEFAULT_sensitiveProperties }
    \cup { <<"C","V","V">>, PIN, Code, PROTO,
           <<"E","M","A","I","L","A","D","D","R","E","S","S">>,
           <<"m","y","P","a","s","s","w","o","r","d">> }

\* The values handed to isSensitiveValue.
ValueInputs ==
    Prims \cup { JNull, JStr(REDACTED), JStr(<<"x">> \o S1234), JStr(S1234 \o <<"5","6","7">>),
                 JStr(<<"T","e","s","t","P","a","s","s","1","2","3","!">>),
                 JBool(TRUE), JArr(<<JStr(S1234)>>) }

\* The rule sets a caller builds and hands to the API: DEFAULT_CONFIG and
\* objects built from it whose sensitivePatterns are regular expressions,
\* the last two /\d{4,6}$/ and /^\d{4,6}$/g.
RuleSets ==
    { DEFAULT_CONFIG_literal,
      [DEFAULT_CONFIG_literal EXCEPT !.preserveKeys = TRUE],
      [DEFAULT_CONFIG_literal EXCEPT !.redactionText = JStr(S1234)],
      [DEFAULT_CONFIG_literal EXCEPT !.redactionText = JStr(S1234), !.preserveKeys = TRUE],
      [DEFAULT_CONFIG_literal EXCEPT !.sensitiveKeys = <<>>],
      [DEFAULT_CONFIG_literal EXCEPT !.sensitiveKeys = <<>>, !.sensitiveProperties = <<Code>>],
      [DEFAULT_CONFIG_literal EXCEPT !.sensitiveKeys = <<Proto>>, !.preserveKeys = TRUE],
      [DEFAULT_CONFIG_literal EXCEPT !.sensitivePatterns = <<>>],
      [DEFAULT_CONFIG_literal EXCEPT
          !.sensitivePatterns = <<RegExp(FALSE, <<Atom(Digits, 4, 6)>>, TRUE, FALSE)>>],
      [DEFAULT_CONFIG_literal EXCEPT
          !.sensitivePatterns = <<Global(RegExp(TRUE, <<Atom(Digits, 4, 6)>>, TRUE, FALSE))>>] }

\* ------------------------------------------------------ the process
VARIABLES
    role,            \* "script": require.main === module, main runs; "library": required
    DEFAULT_CONFIG,  \* the module-level object DEFAULT_CONFIG
    pc,              \* where main stands
    args,            \* the options and file names main parsed from argv
    configRef,       \* main's config: "DEFAULT_CONFIG" (that very object) or "object"
    configObj,       \* the object main's config refers to when it is not DEFAULT_CONFIG
    output,          \* the document written to the output file
    exitCode,        \* 1 once process.exit(1) is called
    preview,         \* the dry run's counter and the redacted paths it printed
    call,            \* the API call a requiring module has made, with its result
    rules            \* the rule set object a requiring module holds for its calls

vars == <<role, DEFAULT_CONFIG, pc, args, configRef, configObj, output, exitCode, preview, call, rules>>

NoArgs == [inputFile |-> NoPath, configFile |-> NoPath, preserveKeys |-> FALSE, dryRun |-> FALSE]
NoCall == [op |-> "none", arg |-> JNull, config |-> NoObject, after |-> NoObject, ret |-> JNull]

\* The object main's variable config refers to.
Config == IF configRef = "DEFAULT_CONFIG" THEN DEFAULT_CONFIG ELSE configObj

Init ==
    /\ role \in {"script", "library"}
    /\ DEFAULT_CONFIG = DEFAULT_CONFIG_literal
    /\ pc = IF role = "script" THEN "main" ELSE "required"
    /\ args = NoArgs
    /\ configRef = "undefined"
    /\ configObj = NoObject
    /\ output = NoOutput
    /\ exitCode = 0
    /\ preview = [count |-> 0, printed |-> <<>>]
    /\ call = NoCall
    /\ rules = DEFAULT_CONFIG_literal

\* ---- a requiring module calls the exported functions
\* The module builds the rule set object it hands to its calls from now on.
CallerBuildsRuleSet ==
    /\ role = "library" /\ call.op = "none"
    /\ rules' \in RuleSets
    /\ UNCHANGED <<role, DEFAULT_CONFIG, pc, args, configRef, configObj, output, exitCode, preview, call>>

\* In a call record, config is the rule set object as the call received it
\* and after the same object as the call left it.
CallIsSensitiveKey ==
    /\ role = "library" /\ call.op = "none"
    /\ \E key \in KeyInputs :
          call' = [op |-> "isSensitiveKey", arg |-> JStr(key), config |-> rules,
                   after |-> rules, ret |-> JBool(isSensitiveKey(key, rules))]
    /\ UNCHANGED <<role, DEFAULT_CONFIG, pc, args, configRef, configObj, output, exitCode, preview, rules>>

CallIsSensitiveValue ==
    /\ role = "library" /\ call.op = "none"
    /\ \E value \in ValueInputs :
          LET out == isSensitiveValue(value, rules) IN
          /\ call' = [op |-> "isSensitiveValue", arg |-> value, config |-> rules,
                      after |-> out.config, ret |-> out.ret]
          /\ rules' = out.config
    /\ UNCHANGED <<role, DEFAULT_CONFIG, pc, args, configRef, configObj, output, exitCode, preview>>

CallRedactObject ==
    /\ role = "library" /\ call.op = "none"
    /\ \E obj \in Docs :
          LET out == redactObject(obj, rules) IN
          /\ call' = [op |-> "redactObject", arg |-> obj, config |-> rules,
                      after |-> out.config, ret |-> out.ret]
          /\ rules' = out.config
    /\ UNCHANGED <<role, DEFAULT_CONFIG, pc, args, configRef, configObj, output, exitCode, preview>>

\* config holds the object returned, arg the path, ret whether the call threw.
CallLoadConfig ==
    /\ role = "library" /\ call.op = "none"
    /\ \E configPath \in ConfigPaths \cup {NoPath} :
          LET r == loadConfig(configPath, DEFAULT_CONFIG)
              loaded == IF r.ref = "DEFAULT_CONFIG" THEN DEFAULT_CONFIG ELSE r.obj
          IN
          call' = [op |-> "loadConfig", arg |-> configPath,
                   config |-> loaded, after |-> loaded, ret |-> JBool(r.threw)]
    /\ UNCHANGED <<role, DEFAULT_CONFIG, pc, args, configRef, configObj, output, exitCode, preview, rules>>

\* The caller has used the result and is ready for its next call.
CallReturn ==
    /\ role = "library" /\ call.op # "none"
    /\ call' = NoCall
    /\ UNCHANGED <<role, DEFAULT_CONFIG, pc, args, configRef, configObj, output, exitCode, preview, rules>>

\* ---- main, run once when the file is the program's entry point
\* The argument loop and the validation after it: either main returns (help,
\* an unknown option, too many arguments, no input file) or the five locals
\* are set.
MainParseArgs ==
    /\ role = "script" /\ pc = "main"
    /\ \/ /\ pc' = "exit"
          /\ args' = args
       \/ /\ \E inputFile \in InputPaths, configFile \in ConfigPaths \cup {NoPath},
               preserveKeys \in BOOLEAN, dryRun \in BOOLEAN :
                 args' = [inputFile |-> inputFile, configFile |-> configFile,
                          preserveKeys |-> preserveKeys, dryRun |-> dryRun]
          /\ pc' = "loadConfig"
    /\ UNCHANGED <<role, DEFAULT_CONFIG, configRef, configObj, output, exitCode, preview, call, rules>>

\* const config = loadConfig(configFile);
MainLoadConfig ==
    /\ role = "script" /\ pc = "loadConfig"
    /\ LET r == loadConfig(args.configFile, DEFAULT_CONFIG) IN
          /\ configRef' = r.ref
          /\ configObj' = r.obj
          /\ pc' = IF r.threw THEN "exit" ELSE "preserveKeys"
          /\ exitCode' = IF r.threw THEN 1 ELSE exitCode
    /\ UNCHANGED <<role, DEFAULT_CONFIG, args, output, preview, call, rules>>

\* if (preserveKeys) { config.preserveKeys = true; } then the existsSync check.
\* The assignment writes the object config refers to.
MainPreserveKeys ==
    /\ role = "script" /\ pc = "preserveKeys"
    /\ IF args.preserveKeys
       THEN IF configRef = "DEFAULT_CONFIG"
            THEN /\ DEFAULT_CONFIG' = [DEFAULT_CONFIG EXCEPT !.preserveKeys = TRUE]
                 /\ configObj' = configObj
            ELSE /\ configObj' = [configObj EXCEPT !.preserveKeys = TRUE]
                 /\ DEFAULT_CONFIG' = DEFAULT_CONFIG
       ELSE UNCHANGED <<DEFAULT_CONFIG, configObj>>
    /\ pc' = IF ~InputFiles[args.inputFile].exists THEN "exit"
             ELSE IF args.dryRun THEN "dryRun" ELSE "processFile"
    /\ UNCHANGED <<role, args, configRef, output, exitCode, preview, call, rules>>

MainDryRun ==
    /\ role = "script" /\ pc = "dryRun"
    /\ preview' = dryRunPreview(args.inputFile, Config)
    /\ pc' = "exit"
    /\ UNCHANGED <<role, DEFAULT_CONFIG, args, configRef, configObj, output, exitCode, call, rules>>

\* const success = processFile(...); if (!success) process.exit(1);
MainProcessFile ==
    /\ role = "script" /\ pc = "processFile"
    /\ LET r == processFile(args.inputFile, Config) IN
          /\ output' = r.written
          /\ exitCode' = IF r.ok THEN 0 ELSE 1
    /\ pc' = "exit"
    /\ UNCHANGED <<role, DEFAULT_CONFIG, args, configRef, configObj, preview, call, rules>>

Next ==
    \/ CallerBuildsRuleSet
    \/ CallIsSensitiveKey
    \/ CallIsSensitiveValue
    \/ CallRedactObject
    \/ CallLoadConfig
    \/ CallReturn
    \/ MainParseArgs
    \/ MainLoadConfig
    \/ MainPreserveKeys
    \/ MainDryRun
    \/ MainProcessFile

Spec == Init /\ [][Next]_vars

\* ====================================================== properties
HasKey(o, k) == \E i \in 1..Len(o.v) : o.v[i][1] = k
ValueAt(o, k) == o.v[CHOOSE i \in 1..Len(o.v) : o.v[i][1] = k][2]

\* Some object of the document, at any depth, has the key "__proto__".
RECURSIVE HasProtoKey(_)
HasProtoKey(d) ==
    IF d.t = "arr" THEN \E i \in 1..Len(d.v) : HasProtoKey(d.v[i])
    ELSE IF d.t = "obj"
    THEN \E i \in 1..Len(d.v) : d.v[i][1] = PROTO \/ HasProtoKey(d.v[i][2])
    ELSE FALSE

\* The expression as it is created, before any test has written lastIndex.
Fresh(re) == [re EXCEPT !.lastIndex = 0]

\* No expression of the rule set carries the flag g.
StatelessPatterns(config) ==
    \A i \in 1..Len(config.sensitivePatterns) : ~config.sensitivePatterns[i].v.global

\* value is a string that some regular expression of config.sensitivePatterns
\* matches (searched from the start of the string).
MatchesSomePattern(value, config) ==
    /\ value.t = "str"
    /\ \E i \in 1..Len(config.sensitivePatterns) :
          /\ config.sensitivePatterns[i].t = "regex"
          /\ RegExpTest(Fresh(config.sensitivePatterns[i].v), value.v)

Redacted == call.op = "redactObject"

\* ---- C1
\* In every object redactObject reaches, a property with a sensitive key is
\* absent from the output object when preserveKeys is false and is exactly
\* (key, redactionText) when preserveKeys is true, whatever its value.
RECURSIVE SensitiveKeysHandled(_, _, _)
SensitiveKeysHandled(in, out, config) ==
    IF in.t = "arr"
    THEN /\ out.t = "arr"
         /\ Len(out.v) = Len(in.v)
         /\ \A i \in 1..Len(in.v) : SensitiveKeysHandled(in.v[i], out.v[i], config)
    ELSE IF in.t = "obj"
    THEN /\ out.t = "obj"
         /\ \A i \in 1..Len(in.v) :
              LET k == in.v[i][1]
                  v == in.v[i][2]
              IN
              IF isSensitiveKey(k, config)
              THEN IF config.preserveKeys
                   THEN /\ Cardinality({ j \in 1..Len(out.v) : out.v[j][1] = k }) = 1
                        /\ ValueAt(out, k) = config.redactionText
                   ELSE ~HasKey(out, k)
              ELSE (IsObjectLike(v) /\ HasKey(out, k))
                      => SensitiveKeysHandled(v, ValueAt(out, k), config)
    ELSE TRUE

\* C1: every sensitive-keyed property at any depth is omitted (preserveKeys
\* false) or replaced by (key, redactionText) (preserveKeys true).
C1_SensitiveKeyOutcome ==
    Redacted => SensitiveKeysHandled(call.arg, call.ret, call.config)

\* The same for the documents none of whose keys is "__proto__".
C1_SensitiveKeyOutcome_OtherKeys ==
    (Redacted /\ ~HasProtoKey(call.arg))
        => SensitiveKeysHandled(call.arg, call.ret, call.config)

\* ---- C2
\* C2: a key equal, up to letter case, to a name of config.sensitiveProperties
\* is sensitive, whatever config.sensitiveKeys is (also when it is empty).
C2_ExactNamesCaseInsensitive ==
    (/\ call.op = "isSensitiveKey"
     /\ \E i \in 1..Len(call.config.sensitiveProperties) :
           toLowerCase(call.config.sensitiveProperties[i]) = toLowerCase(call.arg.v))
        => call.ret = JBool(TRUE)

\* ---- C3
\* C3: redacting the result of redactObject again, with the same rule set,
\* returns a value equal to that result.
C3_Idempotent ==
    Redacted => /\ call.ret # TypeError
                /\ redactObject(call.ret, call.after).ret = call.ret

\* The same for the rule sets none of whose expressions carries the flag g.
C3_Idempotent_StatelessPatterns ==
    (Redacted /\ StatelessPatterns(call.config))
        => /\ call.ret # TypeError
           /\ redactObject(call.ret, call.after).ret = call.ret

\* ---- C4
\* No key of the document is sensitive and no string property value matches
\* a value pattern.
RECURSIVE FreeOfSensitive(_, _)
FreeOfSensitive(d, config) ==
    IF d.t = "arr"
    THEN \A i \in 1..Len(d.v) : FreeOfSensitive(d.v[i], config)
    ELSE IF d.t = "obj"
    THEN \A i \in 1..Len(d.v) :
            /\ ~isSensitiveKey(d.v[i][1], config)
            /\ IF IsObjectLike(d.v[i][2])
               THEN FreeOfSensitive(d.v[i][2], config)
               ELSE ~MatchesSomePattern(d.v[i][2], config)
    ELSE TRUE

\* C4: an object or array free of sensitive keys and of matching string
\* property values is returned deep-equal to the input.
C4_ShapePreserved ==
    (Redacted /\ IsObjectLike(call.arg) /\ FreeOfSensitive(call.arg, call.config))
        => call.ret = call.arg

\* The same for the documents none of whose keys is "__proto__".
C4_ShapePreserved_OtherKeys ==
    (/\ Redacted /\ IsObjectLike(call.arg) /\ ~HasProtoKey(call.arg)
     /\ FreeOfSensitive(call.arg, call.config))
        => call.ret = call.arg

\* ---- C5
\* In every object reached, a property with a non-sensitive key and a
\* primitive value is in the output with redactionText when the value is a
\* string that a value pattern matches, and with the value itself otherwise.
RECURSIVE PrimitivePropertiesHandled(_, _, _)
PrimitivePropertiesHandled(in, out, config) ==
    IF in.t = "arr"
    THEN (out.t = "arr" /\ Len(out.v) = Len(in.v))
            => \A i \in 1..Len(in.v) :
                  PrimitivePropertiesHandled(in.v[i], out.v[i], config)
    ELSE IF in.t = "obj"
    THEN out.t = "obj"
            => \A i \in 1..Len(in.v) :
                  LET k == in.v[i][1]
                      v == in.v[i][2]
                  IN
                  ~isSensitiveKey(k, config)
                     => IF IsObjectLike(v)
                        THEN HasKey(out, k)
                                => PrimitivePropertiesHandled(v, ValueAt(out, k), config)
                        ELSE /\ HasKey(out, k)
                             /\ ValueAt(out, k) =
                                  IF MatchesSomePattern(v, config)
                                  THEN config.redactionText
                                  ELSE v
    ELSE TRUE

\* C5: non-sensitive primitive properties are redacted exactly when they are
\* strings matching a value pattern, and are otherwise unchanged.
C5_PrimitiveProperties ==
    Redacted => PrimitivePropertiesHandled(call.arg, call.ret, call.config)

\* The same for the documents none of whose keys is "__proto__", redacted
\* with a rule set none of whose expressions carries the flag g.
C5_PrimitiveProperties_OtherKeys ==
    (Redacted /\ ~HasProtoKey(call.arg) /\ StatelessPatterns(call.config))
        => PrimitivePropertiesHandled(call.arg, call.ret, call.config)

\* ---- C6
\* A primitive is returned as it is; the primitive elements of every array
\* reached under non-sensitive keys are in the output at the same index.
RECURSIVE ArrayElementsKept(_, _, _)
ArrayElementsKept(in, out, config) ==
    IF in.t = "arr"
    THEN /\ out.t = "arr"
         /\ Len(out.v) = Len(in.v)
         /\ \A i \in 1..Len(in.v) : ArrayElementsKept(in.v[i], out.v[i], config)
    ELSE IF in.t = "obj"
    THEN /\ out.t = "obj"
         /\ \A i \in 1..Len(in.v) :
              (~isSensitiveKey(in.v[i][1], config) /\ IsObjectLike(in.v[i][2]))
                 => /\ HasKey(out, in.v[i][1])
                    /\ ArrayElementsKept(in.v[i][2], ValueAt(out, in.v[i][1]), config)
    ELSE out = in

\* C6: value patterns are not applied to a top-level primitive nor to the
\* elements of arrays.
C6_ArrayElementsUnchanged ==
    Redacted => ArrayElementsKept(call.arg, call.ret, call.config)

\* The same for the documents none of whose keys is "__proto__".
C6_ArrayElementsUnchanged_OtherKeys ==
    (Redacted /\ ~HasProtoKey(call.arg))
        => ArrayElementsKept(call.arg, call.ret, call.config)

\* ---- C7, C8: what loadConfig returned
Fields == {"sensitiveKeys", "sensitiveProperties", "sensitivePatterns",
           "redactionText", "preserveKeys"}

\* loadConfig has just returned (or thrown): to the requiring module, or to
\* main before it applies --preserve-keys.
Loaded ==
    \/ role = "library" /\ call.op = "loadConfig"
    \/ role = "script" /\ (pc = "preserveKeys" \/ configRef = "thrown")
LoadedPath == IF role = "library" THEN call.arg ELSE args.configFile
LoadedConfig == IF role = "library" THEN call.config ELSE Config
LoadThrew == IF role = "library" THEN call.ret = JBool(TRUE) ELSE configRef = "thrown"
LoadedFile == ConfigFiles[LoadedPath]

\* C7: each of the five fields of the rule set loadConfig builds from a
\* readable, parseable file is the file's value when the file defines the
\* field and the compiled-in default otherwise.
C7_ShallowOverride ==
    (Loaded /\ LoadedPath # NoPath /\ LoadedFile.exists /\ LoadedFile.valid)
        => /\ ~LoadThrew
           /\ Fields \subseteq DOMAIN LoadedConfig
           /\ \A f \in Fields :
                 LoadedConfig[f] = IF f \in DOMAIN LoadedFile.value
                                   THEN LoadedFile.value[f]
                                   ELSE DEFAULT_CONFIG_literal[f]

\* A file that supplies only sensitiveKeys: the default key patterns are gone,
\* the other four fields are the defaults.
C7_Witness ==
    /\ Loaded /\ LoadedPath = "keys"
    /\ LoadedConfig.sensitiveKeys = <<Foo>>
    /\ LoadedConfig.sensitiveProperties = DEFAULT_sensitiveProperties

\* C8: when the file cannot be read or parsed, loadConfig does not throw and
\* the five fields of what it returns are the compiled-in defaults.
C8_FallbackOnError ==
    (Loaded /\ LoadedPath # NoPath /\ ~(LoadedFile.exists /\ LoadedFile.valid))
        => /\ ~LoadThrew
           /\ Fields \subseteq DOMAIN LoadedConfig
           /\ \A f \in Fields : LoadedConfig[f] = DEFAULT_CONFIG_literal[f]

\* main has loaded a configuration file that is not JSON.
C8_Witness ==
    /\ role = "script" /\ pc = "preserveKeys" /\ args.configFile = "garbage"
    /\ configRef = "DEFAULT_CONFIG"

\* ---- C9
\* main ran processFile on an input file that holds a JSON document.
Processed ==
    /\ role = "script" /\ pc = "exit" /\ args.inputFile # NoPath /\ ~args.dryRun
    /\ InputFiles[args.inputFile].exists /\ InputFiles[args.inputFile].valid

\* C9: whatever the configuration file holds, a run on a well-formed document
\* ends without error and writes its output.
C9_ConfigNeverAborts ==
    (Processed /\ args.configFile # NoPath) => (exitCode = 0 /\ output # NoOutput)

\* ---- C10
\* C10: DEFAULT_CONFIG keeps the values of its literal.
C10_DefaultsImmutable == DEFAULT_CONFIG = DEFAULT_CONFIG_literal

\* ---- C11
ValueTested == call.op = "isSensitiveValue" /\ call.arg.t = "str"
Patterns == call.config.sensitivePatterns

\* The expression matches all of s, from its first character to its last.
FullMatch(re, s) == (Len(s) + 1) \in MatchEnds(re.atoms, 1, s, 1, re.ignoreCase)

\* The expression matches some piece s[a..b] of s that starts at or after
\* the index a search begins at, is at the start of s when the expression
\* begins with ^ and at the end of s when it ends with $.
SubstringMatch(re, s) ==
    \E a \in 1..(Len(s) + 1) : \E b \in (a - 1)..Len(s) :
        /\ a > (IF re.global THEN re.lastIndex ELSE 0)
        /\ re.anchorStart => a = 1
        /\ re.anchorEnd => b = Len(s)
        /\ FullMatch(re, SubSeq(s, a, b))

\* No expression of the rule set has been left inside a string by a test.
FreshPatterns(config) ==
    \A i \in 1..Len(config.sensitivePatterns) :
        config.sensitivePatterns[i].v.lastIndex = 0

\* C11 as the spec states it: a string is sensitive exactly when some value
\* pattern matches the entire string, so a pattern that matches only a proper
\* substring does not make it sensitive.
C11_FullMatchOnly ==
    (ValueTested /\ FreshPatterns(call.config))
        => (call.ret = JBool(TRUE)
               <=> \E i \in 1..Len(Patterns) : FullMatch(Patterns[i].v, call.arg.v))

\* C11 amended: a string is sensitive exactly when some value pattern matches
\* a substring of it that a search finds (from the start of the string, or
\* from lastIndex for an expression with the flag g), the anchors of the
\* pattern alone tying the match to the ends of the string; when every
\* pattern is anchored at both ends that is a match of the entire string.
C11_SearchMatch ==
    ValueTested
        => /\ call.ret = JBool(TRUE)
                 <=> \E i \in 1..Len(Patterns) : SubstringMatch(Patterns[i].v, call.arg.v)
           /\ (/\ FreshPatterns(call.config)
               /\ \A i \in 1..Len(Patterns) :
                     Patterns[i].v.anchorStart /\ Patterns[i].v.anchorEnd)
                 => (call.ret = JBool(TRUE)
                        <=> \E i \in 1..Len(Patterns) : FullMatch(Patterns[i].v, call.arg.v))

\* /\d{4,6}$/ makes "x1234" sensitive, which it matches only from the second
\* character on.
C11_Witness ==
    /\ ValueTested
    /\ call.arg = JStr(<<"x">> \o S1234)
    /\ call.ret = JBool(TRUE)
    /\ ~Patterns[1].v.anchorStart

\* ---- C12
\* The rule set as it is built, before any call has used it.
Pristine(config) ==
    [config EXCEPT !.sensitivePatterns =
        [i \in 1..Len(config.sensitivePatterns) |->
            [config.sensitivePatterns[i] EXCEPT !.v.lastIndex = 0]]]

\* C12: a call of redactObject leaves the rule set as it received it, and
\* returns what a single call on the rule set as built returns for the same
\* document, whatever calls came before it.
C12_Pure ==
    Redacted => /\ call.after = call.config
                /\ call.ret = redactObject(call.arg, Pristine(call.config)).ret

\* The same for the rule sets none of whose expressions carries the flag g.
C12_Pure_StatelessPatterns ==
    (Redacted /\ StatelessPatterns(call.config))
        => /\ call.after = call.config
           /\ call.ret = redactObject(call.arg, Pristine(call.config)).ret

\* ---- C13
\* The keys of an object, in the order Object.entries lists them.
Keys(o) == [i \in 1..Len(o.v) |-> o.v[i][1]]

\* The keys the claim says the output keeps: all of them when preserveKeys
\* is true, the ones that are not sensitive otherwise.
KeptKeys(o, config) ==
    SelectSeq(Keys(o), LAMBDA k : config.preserveKeys \/ ~isSensitiveKey(k, config))

\* Every array reached has its length and, at each index, the redaction of
\* the element at that index; every object reached has the kept keys of the
\* input, in the input's order.
RECURSIVE OrderKept(_, _, _)
OrderKept(in, out, config) ==
    IF in.t = "arr"
    THEN /\ out.t = "arr"
         /\ Len(out.v) = Len(in.v)
         /\ \A i \in 1..Len(in.v) :
               /\ out.v[i] = redactObject(in.v[i], Pristine(config)).ret
               /\ OrderKept(in.v[i], out.v[i], config)
    ELSE IF in.t = "obj"
    THEN /\ out.t = "obj"
         /\ Keys(out) = KeptKeys(in, config)
         /\ \A i \in 1..Len(in.v) :
               (/\ ~isSensitiveKey(in.v[i][1], config)
                /\ IsObjectLike(in.v[i][2])
                /\ HasKey(out, in.v[i][1]))
                  => OrderKept(in.v[i][2], ValueAt(out, in.v[i][1]), config)
    ELSE TRUE

\* C13: arrays keep their length and the order of their elements, objects
\* keep the order of their keys and lose exactly the sensitive keys, and
\* none when preserveKeys is true.
C13_OrderAndCardinality ==
    Redacted => OrderKept(call.arg, call.ret, call.config)

\* The same for the documents none of whose keys is "__proto__", redacted
\* with a rule set none of whose expressions carries the flag g.
C13_OrderAndCardinality_OtherKeys ==
    (Redacted /\ ~HasProtoKey(call.arg) /\ StatelessPatterns(call.config))
        => OrderKept(call.arg, call.ret, call.config)

\* ---- C14
\* main ran the dry run on an input file that holds a JSON document.
DryRunDone ==
    /\ role = "script" /\ pc = "exit" /\ args.inputFile # NoPath /\ args.dryRun
    /\ InputFiles[args.inputFile].exists /\ InputFiles[args.inputFile].valid

\* The document whose redacted properties the dry run lists.
SampleRedacted == redactObject(InputFiles[args.inputFile].value, Config).ret

RECURSIVE RedactedPaths(_, _)
RECURSIVE RedactedPathsFrom(_, _, _)

\* The paths of the properties from entry i on that hold the marker
\* "[REDACTED]", nested ones included, in the order of the traversal.
RedactedPathsFrom(entries, i, path) ==
    IF i > Len(entries) THEN <<>>
    ELSE LET currentPath == IF path # <<>> THEN path \o <<".">> \o entries[i][1]
                            ELSE entries[i][1]
             here == IF IsObjectLike(entries[i][2])
                     THEN RedactedPaths(entries[i][2], currentPath)
                     ELSE IF entries[i][2] = JStr(REDACTED) THEN <<currentPath>>
                     ELSE <<>>
         IN here \o RedactedPathsFrom(entries, i + 1, path)

RedactedPaths(obj, path) == RedactedPathsFrom(ObjectEntries(obj), 1, path)

FirstPaths(paths) ==
    SubSeq(paths, 1, IF Len(paths) < PreviewLimit THEN Len(paths) ELSE PreviewLimit)

\* Every property of the document holds a primitive.
NoNesting(d) == d.t = "obj" /\ \A i \in 1..Len(d.v) : ~IsObjectLike(d.v[i][2])

\* C14: the dry run counts and prints at most 10 redacted paths, the first
\* 10 of the traversal.
C14_PreviewLimit ==
    DryRunDone
        => /\ preview.count <= PreviewLimit
           /\ Len(preview.printed) <= PreviewLimit
           /\ IsObjectLike(SampleRedacted)
                 => preview.printed = FirstPaths(RedactedPaths(SampleRedacted, <<>>))

\* The same for the documents whose properties all hold primitives.
C14_PreviewLimit_NoNesting ==
    (DryRunDone /\ NoNesting(InputFiles[args.inputFile].value))
        => /\ preview.count <= PreviewLimit
           /\ Len(preview.printed) <= PreviewLimit
           /\ IsObjectLike(SampleRedacted)
                 => preview.printed = FirstPaths(RedactedPaths(SampleRedacted, <<>>))
====
